---- MODULE Spec2Model ----
(***************************************************************************)
(* RSE-ESNB, app.py: the enrichment of a CEE case table                    *)
(* (load_and_process_data) and the dashboard run that filters the enriched *)
(* table and projects the active savings year by year (tab 8).             *)
(*                                                                         *)
(* A text value is a sequence of one-character strings, so that strip,     *)
(* upper, split, extract and zfill are computed character by character.    *)
(* A cell of a table is a record [k, s, n, d, e]:                          *)
(*   k = "nan"  a missing value (NaN / NaT)                                *)
(*   k = "str"  the text s                                                 *)
(*   k = "num"  the number n / d * 10^(-e)                                 *)
(*   k = "ts"   a timestamp of year n                                      *)
(* A table is [cols, index, rows]: the set of column names, the row        *)
(* labels, and one function cols -> cell per row.                          *)
(***************************************************************************)
EXTENDS Integers, Sequences, FiniteSets, TLC

VARIABLES
    uploaded_file,      \* the uploaded workbook, or NoFile
    taux_efficacite,    \* the slider value, in percent
    df,                 \* what load_and_process_data returned (None on error)
    pc,                 \* position of the script run
    filters,            \* periode_filter, mandataire_filter, annee_filter, type_benef_filter
    df_filtered,        \* the rows that pass the filters
    kpis,               \* the totals shown above the tabs and the yearly volumes
    end_year,           \* current_year + horizon
    top_ops,            \* the five largest operation types
    year,               \* the loop variable of the projection
    active_ops,         \* the operations active in the last year processed
    projection_breakdown_list,
    total_projection_df,
    calls               \* the invocations of load_and_process_data so far

loadvars == <<uploaded_file, taux_efficacite, df, calls>>
dashvars == <<filters, df_filtered, kpis, end_year, top_ops, year, active_ops,
              projection_breakdown_list, total_projection_df>>
vars == <<uploaded_file, taux_efficacite, df, pc, filters, df_filtered, kpis, end_year,
          top_ops, year, active_ops, projection_breakdown_list, total_projection_df,
          calls>>

----------------------------------------------------------------------------
(* Cells *)

Cell(k, s, n, d, e) == [k |-> k, s |-> s, n |-> n, d |-> d, e |-> e]
NaN == Cell("nan", <<>>, 0, 1, 0)
Str(s) == Cell("str", s, 0, 1, 0)
Num(n) == Cell("num", <<>>, n, 1, 0)
Quot(n, d, e) == Cell("num", <<>>, n, d, e)
Ts(y) == Cell("ts", <<>>, y, 1, 0)

notna(c) == c.k # "nan"

\* a * b, a / 10^p and a / m (m a positive integer) on "num" cells
Mul(a, b) == Quot(a.n * b.n, a.d * b.d, a.e + b.e)
Shift(a, p) == Quot(a.n, a.d, a.e + p)
DivInt(a, m) == Quot(a.n, a.d * m, a.e)
Positive(a) == a.n > 0

----------------------------------------------------------------------------
(* Text *)

Whitespace == {" ", "\t"}
LowerCase == <<"a","b","c","d","e","f","g","h","i","j","k","l","m",
               "n","o","p","q","r","s","t","u","v","w","x","y","z","é">>
UpperCase == <<"A","B","C","D","E","F","G","H","I","J","K","L","M",
               "N","O","P","Q","R","S","T","U","V","W","X","Y","Z","É">>
Digits == <<"0","1","2","3","4","5","6","7","8","9">>

IsDigit(c) == \E i \in 1..Len(Digits) : Digits[i] = c
DigitVal(c) == (CHOOSE i \in 1..Len(Digits) : Digits[i] = c) - 1

UpperChar(c) ==
    IF \E i \in 1..Len(LowerCase) : LowerCase[i] = c
    THEN UpperCase[CHOOSE i \in 1..Len(LowerCase) : LowerCase[i] = c]
    ELSE c

upper(s) == [i \in 1..Len(s) |-> UpperChar(s[i])]

RECURSIVE lstrip(_)
lstrip(s) == IF s # <<>> /\ Head(s) \in Whitespace THEN lstrip(Tail(s)) ELSE s

RECURSIVE rstrip(_)
rstrip(s) ==
    IF s # <<>> /\ s[Len(s)] \in Whitespace
    THEN rstrip(SubSeq(s, 1, Len(s) - 1))
    ELSE s

strip(s) == rstrip(lstrip(s))

\* s.split('-'): the segments between the dashes, at least one
RECURSIVE split(_)
split(s) ==
    IF \E i \in 1..Len(s) : s[i] = "-"
    THEN LET i == CHOOSE j \in 1..Len(s) :
                      s[j] = "-" /\ \A h \in 1..(j - 1) : s[h] # "-"
         IN  <<SubSeq(s, 1, i - 1)>> \o split(SubSeq(s, i + 1, Len(s)))
    ELSE <<s>>

\* .str[0] and .str[1] of the split list; a missing element is NaN
segment(s, i) == IF i <= Len(split(s)) THEN Str(split(s)[i]) ELSE NaN

\* str.extract(r'(P\d)'): the first 'P' followed by a digit, else NaN
extract_Pd(s) ==
    IF \E i \in 1..(Len(s) - 1) : s[i] = "P" /\ IsDigit(s[i + 1])
    THEN LET i == CHOOSE j \in 1..(Len(s) - 1) :
                      /\ s[j] = "P" /\ IsDigit(s[j + 1])
                      /\ \A h \in 1..(j - 1) : ~(s[h] = "P" /\ IsDigit(s[h + 1]))
         IN  Str(<<s[i], s[i + 1]>>)
    ELSE NaN

RECURSIVE ZeroPad(_, _)
ZeroPad(s, width) == IF Len(s) >= width THEN s ELSE ZeroPad(<<"0">> \o s, width)

\* str.zfill: the zeros go after a leading sign
zfill(s, width) ==
    IF Len(s) >= width THEN s
    ELSE IF s # <<>> /\ s[1] \in {"+", "-"}
         THEN <<s[1]>> \o ZeroPad(Tail(s), width - 1)
         ELSE ZeroPad(s, width)

RECURSIVE NatToStr(_)
NatToStr(n) ==
    IF n < 10 THEN <<Digits[n + 1]>>
    ELSE NatToStr(n \div 10) \o <<Digits[(n % 10) + 1]>>

IntToStr(n) == IF n < 0 THEN <<"-">> \o NatToStr(-n) ELSE NatToStr(n)

RECURSIVE StrToNat(_)
StrToNat(s) ==
    IF s = <<>> THEN 0
    ELSE 10 * StrToNat(SubSeq(s, 1, Len(s) - 1)) + DigitVal(s[Len(s)])

AllDigits(s) == \A i \in 1..Len(s) : IsDigit(s[i])

----------------------------------------------------------------------------
(* Series conversions.  A series is a sequence of cells. *)

\* dtype float64: numbers with at least one hole (integers are then
\* rendered with a trailing ".0" by astype(str))
IsFloat64(col) ==
    /\ \A i \in 1..Len(col) : col[i].k \in {"num", "nan"}
    /\ \E i \in 1..Len(col) : col[i].k = "nan"

\* Series.astype(str), for columns of text, integers and holes
astype_str(col) ==
    [i \in 1..Len(col) |->
        CASE col[i].k = "str" -> col[i]
          [] col[i].k = "nan" -> Str(<<"n","a","n">>)
          [] col[i].k = "num" ->
                Str(IntToStr(col[i].n)
                    \o (IF IsFloat64(col) THEN <<".","0">> ELSE <<>>))]

IsLeap(y) == y % 4 = 0 /\ (y % 100 # 0 \/ y % 400 = 0)
DaysIn(y, m) ==
    IF m = 2 THEN (IF IsLeap(y) THEN 29 ELSE 28)
    ELSE IF m \in {4, 6, 9, 11} THEN 30 ELSE 31

\* a text of the form YYYY-MM-DD naming a day a Timestamp can hold
IsIsoDate(s) ==
    /\ Len(s) = 10
    /\ s[5] = "-" /\ s[8] = "-"
    /\ \A i \in {1, 2, 3, 4, 6, 7, 9, 10} : IsDigit(s[i])
    /\ LET y == StrToNat(SubSeq(s, 1, 4))
           m == StrToNat(SubSeq(s, 6, 7))
           d == StrToNat(SubSeq(s, 9, 10))
       IN  /\ y \in 1678..2261
           /\ m \in 1..12
           /\ d \in 1..DaysIn(y, m)

\* pd.to_datetime(col, errors='coerce'), for date cells, holes and text
to_datetime(col) ==
    [i \in 1..Len(col) |->
        CASE col[i].k = "ts" -> col[i]
          [] col[i].k = "nan" -> NaN
          [] col[i].k = "str" ->
                IF IsIsoDate(strip(col[i].s))
                THEN Ts(StrToNat(SubSeq(strip(col[i].s), 1, 4)))
                ELSE NaN]

\* a decimal literal: optional sign, digits, optional '.' and digits
Unsigned(s) == IF s # <<>> /\ Head(s) \in {"+", "-"} THEN Tail(s) ELSE s
DotAt(s) ==
    IF \E i \in 1..Len(s) : s[i] = "."
    THEN CHOOSE i \in 1..Len(s) : s[i] = "." /\ \A h \in 1..(i - 1) : s[h] # "."
    ELSE Len(s) + 1
IntPart(s) == SubSeq(s, 1, DotAt(s) - 1)
FracPart(s) == SubSeq(s, DotAt(s) + 1, Len(s))
IsDecimal(s) ==
    /\ AllDigits(IntPart(Unsigned(s)))
    /\ AllDigits(FracPart(Unsigned(s)))
    /\ Len(IntPart(Unsigned(s))) + Len(FracPart(Unsigned(s))) > 0

ParseDecimal(s) ==
    LET u == Unsigned(s)
        mag == StrToNat(IntPart(u) \o FracPart(u))
    IN  Quot(IF s # <<>> /\ Head(s) = "-" THEN -mag ELSE mag, 1, Len(FracPart(u)))

\* mutant: the holes and the texts that are no number stay missing
to_numeric_coerce(col) ==
    [i \in 1..Len(col) |->
        CASE col[i].k = "num" -> col[i]
          [] col[i].k = "nan" -> NaN
          [] col[i].k = "str" ->
                IF IsDecimal(strip(col[i].s))
                THEN ParseDecimal(strip(col[i].s))
                ELSE NaN]

\* pd.to_numeric(col, errors='coerce').fillna(0)
to_numeric_fillna0(col) ==
    [i \in 1..Len(col) |->
        CASE col[i].k = "num" -> col[i]
          [] col[i].k = "nan" -> Num(0)
          [] col[i].k = "str" ->
                IF IsDecimal(strip(col[i].s))
                THEN ParseDecimal(strip(col[i].s))
                ELSE Num(0)]

----------------------------------------------------------------------------
(* Tables *)

None == [ok |-> FALSE, cols |-> {}, index |-> <<>>, rows |-> <<>>]

Frame(cols, index, rows) ==
    [ok |-> TRUE, cols |-> cols, index |-> index, rows |-> rows]

\* df[c]
Col(t, c) == [i \in 1..Len(t.rows) |-> t.rows[i][c]]

\* df[c] = vals
SetCol(t, c, vals) ==
    Frame(t.cols \cup {c}, t.index,
          [i \in 1..Len(t.rows) |-> (c :> vals[i]) @@ t.rows[i]])

\* the elements of a set of numbers in increasing order
RECURSIVE Ascending(_)
Ascending(S) ==
    IF S = {} THEN <<>>
    ELSE LET m == CHOOSE x \in S : \A y \in S : x <= y
         IN  <<m>> \o Ascending(S \ {m})

\* the rows at the given positions, in order, with their labels
Rows(t, positions) ==
    Frame(t.cols,
          [j \in 1..Len(positions) |-> t.index[positions[j]]],
          [j \in 1..Len(positions) |-> t.rows[positions[j]]])

\* df[mask]: the rows at the positions where the mask holds
Take(t, keep) == Rows(t, Ascending(keep))

\* a scalar broadcast over the rows
Broadcast(t, v) == [i \in 1..Len(t.rows) |-> v]

----------------------------------------------------------------------------
(* Constants and hypotheses *)

BAR_TH == <<"B","A","R","-","T","H">>
BAR_EN == <<"B","A","R","-","E","N">>
BAR_EQ == <<"B","A","R","-","E","Q">>
BAT_TH == <<"B","A","T","-","T","H">>
AGRI_TH == <<"A","G","R","I","-","T","H">>
BAT_EN == <<"B","A","T","-","E","N">>
TRA == <<"T","R","A">>
DEFAULT == <<"D","E","F","A","U","L","T">>

\* 1 / 12.16 is 1 / 1216 * 10^2, and so on
FACTEUR_CUMAC_TO_KWH ==
    (BAR_TH :> Quot(1, 1216, -2)) @@ (BAR_EN :> Quot(1, 1729, -2)) @@
    (BAR_EQ :> Quot(1, 1112, -2)) @@ (BAT_TH :> Quot(1, 1216, -2)) @@
    (AGRI_TH :> Quot(1, 1216, -2)) @@ (BAT_EN :> Quot(1, 1729, -2)) @@
    (TRA :> Quot(1, 9615, -4)) @@ (DEFAULT :> Quot(1, 811, -2))

DUREE_VIE_EQUIPEMENT ==
    (BAR_TH :> Num(17)) @@ (AGRI_TH :> Num(17)) @@ (BAR_EN :> Num(30)) @@
    (BAR_EQ :> Num(15)) @@ (BAT_TH :> Num(17)) @@ (BAT_EN :> Num(30)) @@
    (TRA :> Num(1)) @@ (DEFAULT :> Num(10))

EMISSION_CO2_KWH == Quot(57, 1, 3)
CONSO_MOYENNE_FOYER_KWH == 15312
COUT_CHAUFFAGE_KWH == Quot(10, 1, 2)
TAUX_EFFICACITE_DEFAULT == 45

SecteurMap ==
    (<<"B","A","R">> :> Str(<<"B","â","t","."," ","R","é","s","i","d","e","n","t","i","e","l">>)) @@
    (<<"B","A","T">> :> Str(<<"B","â","t","."," ","T","e","r","t","i","a","i","r","e">>)) @@
    (<<"T","R","A">> :> Str(<<"T","r","a","n","s","p","o","r","t">>)) @@
    (<<"A","G","R","I">> :> Str(<<"A","g","r","i","c","u","l","t","u","r","e">>)) @@
    (<<"I","N","D">> :> Str(<<"I","n","d","u","s","t","r","i","e">>))

Autre == Str(<<"A","u","t","r","e">>)
N_A == Str(<<"N","/","A">>)
P5 == Str(<<"P","5">>)
Empty == Str(<<>>)
NonRenseigne == Str(<<"N","o","n"," ","r","e","n","s","e","i","g","n","é">>)
PrecariteEnergetique ==
    Str(<<"P","r","é","c","a","r","i","t","é"," ","é","n","e","r","g","é","t","i","q","u","e">>)
PersonneMorale == Str(<<"P","e","r","s","o","n","n","e"," ","M","o","r","a","l","e">>)
MenageClassique ==
    Str(<<"M","é","n","a","g","e"," ","C","l","a","s","s","i","q","u","e">>)
Valide == Str(<<"V","a","l","i","d","é">>)
EnCours == Str(<<"E","n"," ","c","o","u","r","s">>)

\* Series.str.strip() of a text series
str_strip(col) == [i \in 1..Len(col) |-> Str(strip(col[i].s))]

----------------------------------------------------------------------------
(* load_and_process_data, block by block *)

\* Dates: each recognised date column that is present is parsed
ParseDateCol(t, c) == IF c \in t.cols THEN SetCol(t, c, to_datetime(Col(t, c))) ELSE t

ParseDates(t) ==
    ParseDateCol(ParseDateCol(ParseDateCol(ParseDateCol(ParseDateCol(t,
        "Date Validation"), "Date depot"), "Date de début"), "Date de fin"),
        "Date de la facture")

\* df[names] = upd: several columns assigned in one block, upd[i] giving
\* the new cells of row i
SetCols(t, names, upd) ==
    Frame(t.cols \cup names, t.index, [i \in 1..Len(t.rows) |-> upd[i] @@ t.rows[i]])

\* Code postal -> département
ZfillSeries(cp) == [i \in 1..Len(cp) |-> Str(zfill(strip(cp[i].s), 5))]

CodePostal(t) ==
    IF "code postal" \in t.cols
    THEN SetCols(t, {"code postal", "departement"},
                 [i \in 1..Len(t.rows) |->
                     ("code postal" :> ZfillSeries(astype_str(Col(t, "code postal")))[i]) @@
                     ("departement" :>
                        Str(SubSeq(ZfillSeries(astype_str(Col(t, "code postal")))[i].s, 1, 2)))])
    ELSE t

\* Période
PeriodeFromField(p) == [i \in 1..Len(p) |-> Str(upper(strip(p[i].s)))]

PeriodeFromDepot(d) ==
    [i \in 1..Len(d) |-> IF notna(extract_Pd(d[i].s)) THEN extract_Pd(d[i].s) ELSE P5]

Periode(t) ==
    IF "PERIODE" \in t.cols
    THEN SetCol(t, "Période", PeriodeFromField(astype_str(Col(t, "PERIODE"))))
    ELSE IF "Depot" \in t.cols
    THEN SetCol(t, "Période", PeriodeFromDepot(astype_str(Col(t, "Depot"))))
    ELSE SetCol(t, "Période", Broadcast(t, P5))

\* Mandataire
MandataireSeries(m) ==
    [i \in 1..Len(m) |->
        IF m[i].s \in {<<"n","a","n">>, <<"N","a","N">>} THEN NonRenseigne ELSE m[i]]

Mandataire(t) ==
    IF "Mandataire" \in t.cols
    THEN SetCol(t, "Mandataire", MandataireSeries(str_strip(astype_str(Col(t, "Mandataire")))))
    ELSE SetCol(t, "Mandataire", Broadcast(t, NonRenseigne))

\* Numériques primaires
NumericCol(t, c) ==
    IF c \in t.cols
    THEN SetCol(t, c, to_numeric_fillna0(Col(t, c)))
    ELSE SetCol(t, c, Broadcast(t, Num(0)))

Numeriques(t) ==
    NumericCol(NumericCol(NumericCol(NumericCol(t,
        "Total"), "Total précarité"), "Total classique"),
        "Tableau Recapitulatif champ 23")

\* code.str.split('-').str[0]
CodeEquip_prefix(code) == segment(code, 1)

\* code.str.split('-').str[1].fillna('')
CodeEquip_sub(code) == IF notna(segment(code, 2)) THEN segment(code, 2) ELSE Empty

\* mutant: the sub-code is always part of the key
FacteurKey_any_sub(code) ==
    IF CodeEquip_sub(code) # Empty
    THEN Str(CodeEquip_prefix(code).s \o <<"-">> \o CodeEquip_sub(code).s)
    ELSE CodeEquip_prefix(code)

\* FacteurKey of one (stripped, uppercased) code
FacteurKey(code) ==
    IF CodeEquip_sub(code).s \in {<<"T","H">>, <<"E","N">>, <<"E","Q">>}
    THEN Str(CodeEquip_prefix(code).s \o <<"-">> \o CodeEquip_sub(code).s)
    ELSE CodeEquip_prefix(code)

\* dict lookup with .fillna(default)
Lookup(key, table, default) ==
    IF key.k = "str" /\ key.s \in DOMAIN table THEN table[key.s] ELSE default

\* the columns derived from one (stripped, uppercased) code
EquipCols(code) ==
    ("CodeEquip_prefix" :> CodeEquip_prefix(code)) @@
    ("CodeEquip_sub" :> CodeEquip_sub(code)) @@
    ("FacteurKey" :> FacteurKey(code)) @@
    ("Facteur_Conversion" :>
        Lookup(FacteurKey(code), FACTEUR_CUMAC_TO_KWH, FACTEUR_CUMAC_TO_KWH[DEFAULT])) @@
    ("Duree_Vie" :>
        Lookup(FacteurKey(code), DUREE_VIE_EQUIPEMENT, DUREE_VIE_EQUIPEMENT[DEFAULT])) @@
    ("Secteur" :> Lookup(CodeEquip_prefix(code), SecteurMap, Autre)) @@
    ("Sous_Categorie" :> IF CodeEquip_sub(code) = Empty THEN N_A ELSE CodeEquip_sub(code))

\* the columns set when there is no 'Code équipement' column
NoEquipCols ==
    ("Facteur_Conversion" :> FACTEUR_CUMAC_TO_KWH[DEFAULT]) @@
    ("Duree_Vie" :> DUREE_VIE_EQUIPEMENT[DEFAULT]) @@
    ("Secteur" :> Autre) @@
    ("Sous_Categorie" :> N_A) @@
    ("CodeEquip_prefix" :> Autre)

\* df['Code équipement'].astype(str).str.strip().str.upper()
CodeSeries(raw) == [i \in 1..Len(raw) |-> upper(strip(raw[i].s))]

EquipSeries(code) == [i \in 1..Len(code) |-> EquipCols(code[i])]

\* Mapping Code équipement
CodeEquipement(t) ==
    IF "Code équipement" \in t.cols
    THEN SetCols(t, DOMAIN EquipCols(<<>>),
                 EquipSeries(CodeSeries(astype_str(Col(t, "Code équipement")))))
    ELSE SetCols(t, DOMAIN NoEquipCols, Broadcast(t, NoEquipCols))

\* one identifier series: text, stripped, the whole value 'nan' replaced by ''
SirenSeries(s) ==
    [i \in 1..Len(s) |-> IF s[i].s = <<"n","a","n">> THEN Empty ELSE s[i]]

\* one identifier column, created empty if absent
SirenCol(t, c) ==
    IF c \in t.cols
    THEN SetCol(t, c, SirenSeries(str_strip(astype_str(Col(t, c)))))
    ELSE SetCol(t, c, SirenSeries(str_strip(astype_str(Broadcast(t, Empty)))))

\* mutant: the two conditions in the other order
TypeBeneficiaireOf_identifier_first(precarite, siren8, siren9) ==
    IF siren8 # Empty \/ siren9 # Empty THEN PersonneMorale
    ELSE IF Positive(precarite) THEN PrecariteEnergetique
    ELSE MenageClassique

\* np.select(conditions, choices, default): the first condition that holds
TypeBeneficiaireOf(precarite, siren8, siren9) ==
    IF Positive(precarite) THEN PrecariteEnergetique
    ELSE IF siren8 # Empty \/ siren9 # Empty THEN PersonneMorale
    ELSE MenageClassique

TypeBeneficiaireCol(t) ==
    SetCol(t, "Type_Beneficiaire",
           [i \in 1..Len(t.rows) |->
               TypeBeneficiaireOf(t.rows[i]["Total précarité"],
                                  t.rows[i]["Tableau Recapitulatif champ 8"],
                                  t.rows[i]["Tableau Recapitulatif champ 9"])])

\* Type bénéficiaire
TypeBeneficiaire(t) ==
    TypeBeneficiaireCol(SirenCol(SirenCol(t, "Tableau Recapitulatif champ 8"),
                                 "Tableau Recapitulatif champ 9"))

\* mutant: the test is on the value itself, and NaT is not None
StatutOf_not_none(x) == Valide

\* one value of 'Statut'
StatutOf(x) == IF notna(x) THEN Valide ELSE EnCours

\* df['Statut'] = df['Date Validation'].apply(...)
Statut(t) ==
    SetCol(t, "Statut", [i \in 1..Len(t.rows) |-> StatutOf(t.rows[i]["Date Validation"])])

\* one value of df['Date depot'].dt.year
YearOf(x) == IF notna(x) THEN Num(x.n) ELSE NaN

\* mutant: the rows without a deposit date are dropped
AnneeDepot_dropna(t) ==
    Take(SetCol(t, "Annee_Depot", [i \in 1..Len(t.rows) |-> YearOf(t.rows[i]["Date depot"])]),
         {i \in 1..Len(t.rows) : notna(t.rows[i]["Date depot"])})

\* df['Annee_Depot'] = df['Date depot'].dt.year
AnneeDepot(t) ==
    SetCol(t, "Annee_Depot", [i \in 1..Len(t.rows) |-> YearOf(t.rows[i]["Date depot"])])

\* mutant: the slider is ignored and the default rate applied
ReelsAnnuels_default_rate(cumac, facteur, taux) ==
    Mul(Mul(cumac, facteur), Quot(TAUX_EFFICACITE_DEFAULT, 1, 2))

\* kWh_reels_annuels of one row; taux is the efficiency rate in percent
ReelsAnnuels(cumac, facteur, taux) == Mul(Mul(cumac, facteur), Quot(taux, 1, 2))

\* the metric columns of one row
CalculCols(cumac, facteur, prime, taux) ==
    ("kWh_cumac" :> cumac) @@
    ("GWh_cumac" :> Shift(cumac, 6)) @@
    ("kWh_reels_annuels" :> ReelsAnnuels(cumac, facteur, taux)) @@
    ("GWh_reels_annuels" :> Shift(ReelsAnnuels(cumac, facteur, taux), 6)) @@
    ("CO2_evite_tonnes_an" :>
        Shift(Mul(ReelsAnnuels(cumac, facteur, taux), EMISSION_CO2_KWH), 3)) @@
    ("Nb_foyers_equivalents" :>
        DivInt(ReelsAnnuels(cumac, facteur, taux), CONSO_MOYENNE_FOYER_KWH)) @@
    ("Economies_euros_an" :> Mul(ReelsAnnuels(cumac, facteur, taux), COUT_CHAUFFAGE_KWH)) @@
    ("Prime_versee" :> prime)

\* Calculs énergie / CO2 / euros
Calculs(t, taux) ==
    SetCols(t, DOMAIN CalculCols(NaN, NaN, NaN, 0),
            [i \in 1..Len(t.rows) |->
                CalculCols(to_numeric_fillna0(<<t.rows[i]["Total"]>>)[1],
                           t.rows[i]["Facteur_Conversion"],
                           t.rows[i]["Tableau Recapitulatif champ 23"], taux)])

\* the texts pd.read_excel reads as missing values (keep_default_na)
DefaultNaValues ==
    {<<>>, <<"#","N","/","A">>, <<"#","N","/","A"," ","N","/","A">>,
     <<"#","N","A">>, <<"-","1",".","#","I","N","D">>,
     <<"-","1",".","#","Q","N","A","N">>, <<"-","N","a","N">>,
     <<"-","n","a","n">>, <<"1",".","#","I","N","D">>,
     <<"1",".","#","Q","N","A","N">>, <<"<","N","A",">">>, <<"N","/","A">>,
     <<"N","A">>, <<"N","U","L","L">>, <<"N","a","N">>, <<"N","o","n","e">>,
     <<"n","/","a">>, <<"n","a","n">>, <<"n","u","l","l">>}

ReadCell(c) == IF c.k = "str" /\ c.s \in DefaultNaValues THEN NaN ELSE c

\* pd.read_excel: the sheet as a table with a fresh 0..n-1 index
read_excel(file) ==
    Frame(file.cols, [i \in 1..Len(file.rows) |-> i - 1],
          [i \in 1..Len(file.rows) |-> [c \in file.cols |-> ReadCell(file.rows[i][c])]])

\* the blocks before 'Statut', none of which raises
Blocks(t) ==
    TypeBeneficiaire(CodeEquipement(Numeriques(Mandataire(
        Periode(CodePostal(ParseDates(t)))))))

\* from 'Statut' to the return: df['Date Validation'] and df['Date depot']
\* raise KeyError on a table without the column
StatutToEnd(t, taux) ==
    IF "Date Validation" \notin t.cols THEN None
    ELSE IF "Date depot" \notin t.cols THEN None
    ELSE Calculs(AnneeDepot(Statut(t)), taux)

\* The whole function.  Every exception raised inside the try block is
\* caught and turned into None: an unreadable workbook, and the KeyError
\* of df['Date Validation'] or df['Date depot'] on a table without
\* that column.
load_and_process_data(file, taux) ==
    IF ~file.readable THEN None ELSE StatutToEnd(Blocks(read_excel(file)), taux)

\* one invocation: its arguments and the table it returned
Call(file, taux, result) == [file |-> file, taux |-> taux, result |-> result]

\* mutant: the cache is keyed by the workbook alone
cache_data_by_file(log, file, taux) ==
    IF \E j \in 1..Len(log) : log[j].file = file
    THEN log[CHOOSE j \in 1..Len(log) : log[j].file = file].result
    ELSE load_and_process_data(file, taux)

\* @st.cache_data: the value returned for these arguments before, if any,
\* else what the function computes
cache_data(log, file, taux) ==
    IF \E j \in 1..Len(log) : log[j].file = file /\ log[j].taux = taux
    THEN log[CHOOSE j \in 1..Len(log) : log[j].file = file /\ log[j].taux = taux].result
    ELSE load_and_process_data(file, taux)

----------------------------------------------------------------------------
(* The workbooks a user may upload *)

MaxCalls == 3

MaxRows == 2

Txt_abc == <<"a","b","c">>
Txt_nan == <<"n","a","n">>
Txt_blank == <<" "," ">>

SeqsUpTo(S, n) == UNION {[1..k -> S] : k \in 0..n}

NoFile == [present |-> FALSE, readable |-> FALSE, cols |-> {}, rows |-> <<>>]
Corrupt == [present |-> TRUE, readable |-> FALSE, cols |-> {}, rows |-> <<>>]

\* a readable sheet with the columns C (and a reference column that the
\* program does not know) holding the rows of seq
Sheet(C, seq) ==
    [present |-> TRUE, readable |-> TRUE, cols |-> C \cup {"Ref"},
     rows |-> [i \in 1..Len(seq) |->
                  [c \in C \cup {"Ref"} |->
                      IF c = "Ref" THEN Str(<<"r">> \o IntToStr(i)) ELSE seq[i][c]]]]

Sheets(colsets, rowset) ==
    {Sheet(C, seq) : C \in colsets, seq \in SeqsUpTo(rowset, MaxRows)}

Columns ==
    {"Date Validation", "Date depot", "code postal", "PERIODE", "Depot",
     "Mandataire", "Total", "Total précarité", "Tableau Recapitulatif champ 23",
     "Code équipement", "Tableau Recapitulatif champ 8",
     "Tableau Recapitulatif champ 9"}

\* a clean row
CleanRow ==
    ("Date Validation" :> Ts(2021)) @@ ("Date depot" :> Ts(2020)) @@
    ("code postal" :> Num(75001)) @@ ("PERIODE" :> Str(<<"P","5">>)) @@
    ("Depot" :> Str(<<"L","o","t"," ","P","4">>)) @@
    ("Mandataire" :> Str(<<"A","C","M","E">>)) @@
    ("Total" :> Num(100000)) @@ ("Total précarité" :> Num(0)) @@
    ("Tableau Recapitulatif champ 23" :> Num(250)) @@
    ("Code équipement" :> Str(<<"B","A","R","-","T","H","-","0","0","1">>)) @@
    ("Tableau Recapitulatif champ 8" :> NaN) @@
    ("Tableau Recapitulatif champ 9" :> NaN)

\* a row with an anomaly in every field
DirtyRow ==
    ("Date Validation" :> Str(Txt_abc)) @@ ("Date depot" :> NaN) @@
    ("code postal" :> Num(1234)) @@ ("PERIODE" :> NaN) @@
    ("Depot" :> Str(<<"l","o","t"," ","x">>)) @@
    ("Mandataire" :> NaN) @@
    ("Total" :> Str(<<"1","2",",","5">>)) @@ ("Total précarité" :> Num(500)) @@
    ("Tableau Recapitulatif champ 23" :> NaN) @@
    ("Code équipement" :> NaN) @@
    ("Tableau Recapitulatif champ 8" :> Num(552100554)) @@
    ("Tableau Recapitulatif champ 9" :> Str(Txt_blank))

\* CleanRow with the fields of f replaced
With(f) == f @@ CleanRow

\* the columns whose absence the program tests or trips over
Optional ==
    {"Date Validation", "Date depot", "code postal", "Mandataire", "Total",
     "Code équipement", "Tableau Recapitulatif champ 8"}

\* every subset of the optional columns, over clean and dirty rows
ColumnSheets ==
    Sheets({Columns \ X : X \in SUBSET Optional}, {CleanRow, DirtyRow})

\* beneficiary fields
BeneficiaryRows ==
    {With(("Total précarité" :> p) @@ ("Tableau Recapitulatif champ 8" :> a)
          @@ ("Tableau Recapitulatif champ 9" :> b)) :
        p \in {Num(0), Num(500)},
        a \in {Str(Txt_blank), Str(<<" ","n","a","n"," ">>), Str(<<" ","1","2","3">>)},
        b \in {NaN, Str(<<"N","a","N">>)}}

\* equipment codes
CodeRows ==
    {With("Code équipement" :> c) :
        c \in {NaN, Str(<<>>),
               Str(<<"b","a","r","-","t","h","-","0","0","1">>),
               Str(<<" ","b","a","r","-","t","h","-","0","0","1"," ">>),
               Str(<<"B","A","R","-","E","N","-","1","0","1">>),
               Str(<<"t","r","a","-","e","q">>),
               Str(<<"I","N","D">>),
               Str(<<"B","A","T","-","X","X","-","T","H">>),
               Str(<<"A","G","R","I"," ","-"," ","T","H">>),
               Str(<<"d","e","f","a","u","l","t">>)}}

\* period fields
PeriodRows ==
    {With(("PERIODE" :> p) @@ ("Depot" :> d)) :
        p \in {NaN, Str(<<" ","p","4"," ">>), Str(<<"P","3">>)},
        d \in {Str(<<"L","o","t"," ","P","3","-","P","2">>),
               Str(<<"l","o","t"," ","p","3">>)}}

PeriodSheets ==
    Sheets({Columns \ X : X \in SUBSET {"PERIODE", "Depot"}}, PeriodRows)

\* mandataire names
MandataireRows ==
    {With("Mandataire" :> m) :
        m \in {NaN, Str(<<>>), Str(Txt_blank), Str(Txt_nan), Str(<<" ","N","a","N">>),
               Str(<<"n","a","n"," ">>),
               Str(<<" ","E","D","F"," ","S","A"," ">>), Str(<<"N","A","N">>)}}

\* dates
DateRows ==
    {With(("Date Validation" :> v) @@ ("Date depot" :> d)) :
        v \in {NaN, Str(Txt_abc), Str(<<"2","0","2","2","-","0","5","-","0","3">>)},
        d \in {NaN, Str(<<"2","0","2","3","-","0","2","-","3","0">>),
               Str(<<"2","0","2","2","-","0","3","-","0","1">>)}}

\* amounts: numbers, texts of numbers, a negative volume, and texts that
\* are no number
NumericRows ==
    {With("Total" :> t) :
        t \in {Num(0), Num(250), Num(-40), NaN, Str(<<" ","7",".","5"," ">>),
               Str(<<"-","3">>), Str(Txt_abc)}}
    \cup {With(("Total" :> Str(Txt_abc))
               @@ ("Tableau Recapitulatif champ 23" :> Str(<<"1"," ","0","0","0">>)))}

\* postal codes: numbers, a hole, texts
PostalRows ==
    {With("code postal" :> c) :
        c \in {Num(1234), Num(75001), NaN, Str(<<" ","2","A","0","0","4"," ">>),
               Str(<<"9","7","4">>)}}

EnrichFiles ==
    {Corrupt} \cup ColumnSheets \cup PeriodSheets
    \cup Sheets({Columns}, PostalRows)
    \cup Sheets({Columns}, NumericRows)
    \cup Sheets({Columns}, BeneficiaryRows) \cup Sheets({Columns}, CodeRows)
    \cup Sheets({Columns}, MandataireRows) \cup Sheets({Columns}, DateRows)

\* rows for the dashboard: deposit years, lifetimes of 1, 10, 17 and 30
\* years, two periods, volumes of 0 to 3 kWh cumac
DashRow(depot, code, total, periode) ==
    With(("Date depot" :> depot) @@ ("Code équipement" :> Str(code))
         @@ ("Total" :> Num(total)) @@ ("PERIODE" :> Str(periode)))

DashRows ==
    {DashRow(Ts(2020), <<"B","A","R","-","T","H","-","0","0","1">>, 3, <<"P","5">>),
     DashRow(Ts(2023), <<"I","N","D","-","U","T","-","1">>, 1, <<"P","5">>),
     DashRow(NaN, <<"B","A","R","-","E","N","-","1">>, 2, <<"P","5">>),
     DashRow(Ts(2020), <<"T","R","A","-","E","Q">>, 1, <<"P","4">>),
     DashRow(Ts(2023), <<"B","A","T","-","E","N","-","2">>, 0, <<"P","4">>)}

\* a table with seven operation types, deposited in 2020; AGRI-TH and
\* BAT-TH have equal savings, IND has none
TopRows ==
    <<DashRow(Ts(2020), <<"B","A","T","-","T","H","-","1","1","6">>, 1, <<"P","5">>),
      DashRow(Ts(2020), <<"B","A","R","-","T","H","-","1","0","4">>, 3, <<"P","5">>),
      DashRow(Ts(2020), <<"B","A","R","-","E","N","-","1","0","1">>, 3, <<"P","5">>),
      DashRow(Ts(2020), <<"T","R","A","-","E","Q","-","1","0","1">>, 1, <<"P","5">>),
      DashRow(Ts(2020), <<"B","A","R","-","E","Q","-","1","1","0">>, 2, <<"P","5">>),
      DashRow(Ts(2020), <<"A","G","R","I","-","T","H","-","1","0","4">>, 1, <<"P","5">>),
      DashRow(Ts(2020), <<"I","N","D","-","U","T","-","1","0","2">>, 0, <<"P","5">>),
      DashRow(Ts(2023), <<"B","A","R","-","T","H","-","1","0","6">>, 2, <<"P","4">>)>>

TopSheets == {Sheet(Columns, SubSeq(TopRows, 1, k)) : k \in {6, 7, 8}}

DashFiles ==
    {Corrupt} \cup Sheets({Columns, Columns \ {"Code équipement"}}, DashRows)
    \cup TopSheets

\* workbooks loaded again and again: volumes that are positive, zero,
\* negative and no number
CallRows ==
    <<CleanRow, With("Total" :> Num(0)), With("Total" :> Num(-40)),
      With("Total" :> Str(Txt_abc)), DirtyRow>>

CallFiles ==
    {Corrupt, Sheet(Columns \ {"Date depot"}, <<CleanRow>>),
     Sheet(Columns \ {"Total"}, <<CleanRow>>),
     Sheet(Columns, <<CallRows[3]>>)}
    \cup {Sheet(Columns, <<CallRows[1], CallRows[j]>>) : j \in {2, 4, 5}}

\* the slider: 10 to 100 percent in steps of 5
Rates == {TAUX_EFFICACITE_DEFAULT, 100}

----------------------------------------------------------------------------
(* The filters *)

\* the distinct non-null values of a column
Unique(t, c) == {t.rows[i][c] : i \in {j \in 1..Len(t.rows) : notna(t.rows[j][c])}}

\* the years of the deposit-year selector, as integers; the selector is
\* only shown when some row has a deposit year
Annees(t) ==
    IF "Annee_Depot" \in t.cols THEN {x.n : x \in Unique(t, "Annee_Depot")} ELSE {}

\* what each selector shows selected before the user touches it
DefaultFilters(t) ==
    [periode |-> IF P5 \in Unique(t, "Période") THEN {P5}
                  ELSE Unique(t, "Période"),
     mandataire |-> Unique(t, "Mandataire"),
     annee |-> Annees(t),
     type_benef |-> Unique(t, "Type_Beneficiaire")]

\* the selections a user can make: any subset of the options of each selector
Selections(t) ==
    [periode : SUBSET Unique(t, "Période"),
     mandataire : SUBSET Unique(t, "Mandataire"),
     annee : SUBSET Annees(t),
     type_benef : SUBSET Unique(t, "Type_Beneficiaire")]

\* the selections explored: the defaults, and the defaults with one
\* selector changed
Explored(t) ==
    {f \in Selections(t) :
        Cardinality({k \in DOMAIN f : f[k] # DefaultFilters(t)[k]}) <= 1}

\* if sel: df_filtered = df_filtered[df_filtered[c].isin(sel)]
Isin(t, c, sel) ==
    IF sel = {} THEN t
    ELSE Take(t, {i \in 1..Len(t.rows) : t.rows[i][c] \in sel})

IsinYears(t, sel) ==
    IF sel = {} THEN t
    ELSE Take(t, {i \in 1..Len(t.rows) :
                     /\ notna(t.rows[i]["Annee_Depot"])
                     /\ t.rows[i]["Annee_Depot"].n \in sel})

ApplyFilter(t, f) ==
    Isin(IsinYears(Isin(Isin(t, "Période", f.periode),
                        "Mandataire", f.mandataire), f.annee),
         "Type_Beneficiaire", f.type_benef)

NoFilters == [periode |-> {}, mandataire |-> {}, annee |-> {}, type_benef |-> {}]

----------------------------------------------------------------------------
(* Sums of energy savings *)

\* A sum of "num" cells is kept exact: it maps each <<d, e>> of its terms
\* to the sum of the numerators n of the terms n / d * 10^(-e).
RECURSIVE SumN(_, _)
SumN(col, I) ==
    IF I = {} THEN 0
    ELSE LET i == CHOOSE j \in I : TRUE
         IN  col[i].n + SumN(col, I \ {i})

\* Series.sum(): the null cells are skipped
Sum(col) ==
    [k \in {<<col[i].d, col[i].e>> : i \in {j \in 1..Len(col) : notna(col[j])}} |->
        SumN(col, {i \in 1..Len(col) :
                      notna(col[i]) /\ <<col[i].d, col[i].e>> = k})]

RECURSIVE Pow10(_)
Pow10(p) == IF p = 0 THEN 1 ELSE 10 * Pow10(p - 1)

RECURSIVE Product(_)
Product(S) ==
    IF S = {} THEN 1
    ELSE LET x == CHOOSE y \in S : TRUE
         IN  x * Product(S \ {x})

RECURSIVE Total(_, _)
Total(f, K) ==
    IF K = {} THEN 0
    ELSE LET k == CHOOSE j \in K : TRUE
         IN  f[k] + Total(f, K \ {k})

\* the sum q as a multiple of 1 / D * 10^(-E)
Scaled(q, D, E) ==
    Total([k \in DOMAIN q |-> q[k] * (D \div k[1]) * Pow10(E - k[2])], DOMAIN q)

MaxOf(S) == CHOOSE x \in S : \A y \in S : y <= x

\* q1 > q2
Greater(q1, q2) ==
    LET K == DOMAIN q1 \cup DOMAIN q2
    IN  K # {} /\
        Scaled(q1, Product({k[1] : k \in K}), MaxOf({k[2] : k \in K}))
          > Scaled(q2, Product({k[1] : k \in K}), MaxOf({k[2] : k \in K}))

\* q1 + q2
Plus(q1, q2) ==
    [k \in DOMAIN q1 \cup DOMAIN q2 |->
        (IF k \in DOMAIN q1 THEN q1[k] ELSE 0) + (IF k \in DOMAIN q2 THEN q2[k] ELSE 0)]

----------------------------------------------------------------------------
(* The indicators *)

\* df_filtered.groupby('Annee_Depot')['GWh_cumac'].sum(): one group per
\* deposit year; the rows without a year are in no group
ByYear(t, c) ==
    [y \in Annees(t) |->
        Sum(Col(Take(t, {i \in 1..Len(t.rows) :
                            /\ notna(t.rows[i]["Annee_Depot"])
                            /\ t.rows[i]["Annee_Depot"].n = y}), c))]

Kpis(t) ==
    [total_dossiers |-> Len(t.rows),
     total_gwh_reels |-> Sum(Col(t, "GWh_reels_annuels")),
     total_foyers |-> Sum(Col(t, "Nb_foyers_equivalents")),
     total_primes |-> Sum(Col(t, "Prime_versee")),
     total_couts_evites |-> Sum(Col(t, "Economies_euros_an")),
     total_co2_evite |-> Sum(Col(t, "CO2_evite_tonnes_an")),
     gwhc_yearly |-> ByYear(t, "GWh_cumac")]

NoKpis == Kpis(Frame({}, <<>>, <<>>))

----------------------------------------------------------------------------
(* The order of texts *)

\* the characters of the labels, by code point
CodePoints == <<"\t", " ", "-", ".", "/">> \o Digits \o UpperCase \o LowerCase

Ord(c) == CHOOSE i \in 1..Len(CodePoints) : CodePoints[i] = c

\* a < b as Python compares strings
RECURSIVE LexLess(_, _)
LexLess(a, b) ==
    IF b = <<>> THEN FALSE
    ELSE IF a = <<>> THEN TRUE
    ELSE IF a[1] = b[1] THEN LexLess(Tail(a), Tail(b))
    ELSE Ord(a[1]) < Ord(b[1])

\* sorted(S)
RECURSIVE Sorted(_)
Sorted(S) ==
    IF S = {} THEN <<>>
    ELSE LET m == CHOOSE x \in S : \A y \in S \ {x} : LexLess(x, y)
         IN  <<m>> \o Sorted(S \ {m})

----------------------------------------------------------------------------
(* The projection *)

Autres == <<"A","u","t","r","e","s">>

\* the slider of the horizon: 10 to 40 years
Horizons == {10, 30}

\* datetime.now().year
CurrentYears == {2025}

\* the guard of the projection: some row has a deposit year and a lifetime
Projectable(t) ==
    /\ "Annee_Depot" \in t.cols
    /\ \E i \in 1..Len(t.rows) :
          /\ notna(t.rows[i]["Annee_Depot"])
          /\ "Duree_Vie" \in t.cols /\ notna(t.rows[i]["Duree_Vie"])

\* mutant: the projection starts at the latest deposit year
start_year_latest(t) ==
    CHOOSE y \in Annees(t) : \A z \in Annees(t) : y >= z

\* int(df_filtered['Annee_Depot'].min())
start_year(t) ==
    CHOOSE y \in Annees(t) : \A z \in Annees(t) : y <= z

\* the positions of the rows of one group
Group(t, c, label) == {i \in 1..Len(t.rows) : t.rows[i][c] = Str(label)}

\* df_filtered.groupby('FacteurKey')['GWh_reels_annuels'].sum()
SumByKey(t, label) ==
    Sum(Col(Take(t, Group(t, "FacteurKey", label)), "GWh_reels_annuels"))

Keys(t) == {t.rows[i]["FacteurKey"].s : i \in 1..Len(t.rows)}

\* the place of a key in nlargest: the keys with a larger sum come first,
\* and among equal sums the key that comes first in the sorted groups
Before(t, a, b) ==
    \/ Greater(SumByKey(t, a), SumByKey(t, b))
    \/ ~Greater(SumByKey(t, b), SumByKey(t, a)) /\ LexLess(a, b)

Rank(t, label) == Cardinality({k \in Keys(t) : Before(t, k, label)})

\* mutant: the six largest operation types are kept
TopOps_six(t) ==
    [r \in 1..(IF Cardinality(Keys(t)) < 6 THEN Cardinality(Keys(t)) ELSE 6) |->
        CHOOSE k \in Keys(t) : Rank(t, k) = r - 1]

\* .nlargest(5).index.tolist()
TopOps(t) ==
    [r \in 1..(IF Cardinality(Keys(t)) < 5 THEN Cardinality(Keys(t)) ELSE 5) |->
        CHOOSE k \in Keys(t) : Rank(t, k) = r - 1]

InSeq(x, seq) == \E j \in 1..Len(seq) : seq[j] = x

\* df_proj['Type Opération']
TypeOperation(key, top) == IF InSeq(key.s, top) THEN key ELSE Str(Autres)

df_proj(t, top) ==
    SetCol(t, "Type Opération",
           [i \in 1..Len(t.rows) |-> TypeOperation(t.rows[i]["FacteurKey"], top)])

\* mutant: an operation is still active in the year its lifetime ends
IsActive_inclusive_end(annee, duree, y) ==
    /\ notna(annee) /\ notna(duree)
    /\ annee.n <= y
    /\ annee.n + duree.n >= y

\* (Annee_Depot <= year) & (Annee_Depot + Duree_Vie > year); a comparison
\* with a null is False
IsActive(annee, duree, y) ==
    /\ notna(annee) /\ notna(duree)
    /\ annee.n <= y
    /\ annee.n + duree.n > y

ActiveOps(t, y) ==
    Take(t, {i \in 1..Len(t.rows) :
                IsActive(t.rows[i]["Annee_Depot"], t.rows[i]["Duree_Vie"], y)})

\* mutant: the operations labelled 'Autres' are left out
Breakdown_without_autres(act, y) ==
    [j \in 1..Cardinality({x.s : x \in Unique(act, "Type Opération")} \ {Autres}) |->
        [Annee |-> y,
         TypeOperation |->
            Sorted({x.s : x \in Unique(act, "Type Opération")} \ {Autres})[j],
         Economies |->
            Sum(Col(Take(act, Group(act, "Type Opération",
                        Sorted({x.s : x \in Unique(act, "Type Opération")} \ {Autres})[j])),
                    "GWh_reels_annuels"))]]

\* the entries appended for one year: one per operation type among the
\* active operations, in the order of the sorted groups
Breakdown(act, y) ==
    [j \in 1..Cardinality({x.s : x \in Unique(act, "Type Opération")}) |->
        [Annee |-> y,
         TypeOperation |-> Sorted({x.s : x \in Unique(act, "Type Opération")})[j],
         Economies |->
            Sum(Col(Take(act, Group(act, "Type Opération",
                        Sorted({x.s : x \in Unique(act, "Type Opération")})[j])),
                    "GWh_reels_annuels"))]]

\* projection_df.groupby('Année')['Économies GWh/an'].sum()
RECURSIVE SumEntries(_, _)
SumEntries(list, y) ==
    IF list = <<>> THEN [k \in {} |-> 0]
    ELSE IF list[1].Annee = y
         THEN Plus(list[1].Economies, SumEntries(Tail(list), y))
         ELSE SumEntries(Tail(list), y)

TotalProjection(list) ==
    [y \in {list[j].Annee : j \in 1..Len(list)} |-> SumEntries(list, y)]

----------------------------------------------------------------------------
(* The script *)

\* the values of the dashboard's variables before the script reaches them
NotYet ==
    /\ filters = NoFilters
    /\ df_filtered = None
    /\ kpis = NoKpis
    /\ end_year = 0
    /\ top_ops = <<>>
    /\ year = 0
    /\ active_ops = None
    /\ projection_breakdown_list = <<>>
    /\ total_projection_df = <<>>

Init ==
    /\ uploaded_file = NoFile
    /\ taux_efficacite = TAUX_EFFICACITE_DEFAULT
    /\ df = None
    /\ pc = "start"
    /\ NotYet
    /\ calls = <<>>

\* the slider is moved before a workbook is uploaded
SetSlider(r) ==
    /\ pc = "start"
    /\ r # taux_efficacite
    /\ taux_efficacite' = r
    /\ UNCHANGED <<uploaded_file, df, pc, calls, dashvars>>

\* a workbook is uploaded and the script loads it
Upload(file) ==
    /\ pc = "start"
    /\ Len(calls) < MaxCalls
    /\ uploaded_file' = file
    /\ df' = cache_data(calls, file, taux_efficacite)
    /\ calls' = Append(calls, Call(file, taux_efficacite,
                                   cache_data(calls, file, taux_efficacite)))
    /\ pc' = "loaded"
    /\ UNCHANGED <<taux_efficacite, dashvars>>

\* the slider is moved while a workbook is loaded: the script runs again
MoveSlider(r) ==
    /\ pc = "loaded"
    /\ Len(calls) < MaxCalls
    /\ r # taux_efficacite
    /\ taux_efficacite' = r
    /\ df' = cache_data(calls, uploaded_file, r)
    /\ calls' = Append(calls, Call(uploaded_file, r, cache_data(calls, uploaded_file, r)))
    /\ UNCHANGED <<uploaded_file, pc, dashvars>>

\* the workbook is removed from the uploader; the server keeps running
Remove ==
    /\ pc = "loaded"
    /\ uploaded_file' = NoFile
    /\ df' = None
    /\ pc' = "start"
    /\ UNCHANGED <<taux_efficacite, calls, dashvars>>

\* df is None or empty: the script warns and shows nothing
Warn ==
    /\ pc = "loaded"
    /\ ~df.ok \/ Len(df.rows) = 0
    /\ pc' = "warned"
    /\ UNCHANGED <<loadvars, dashvars>>

\* the selectors are read and the filters applied
ApplyFilters(f) ==
    /\ pc = "loaded"
    /\ df.ok /\ Len(df.rows) > 0
    /\ filters' = f
    /\ df_filtered' = ApplyFilter(df, f)
    /\ kpis' = Kpis(ApplyFilter(df, f))
    /\ pc' = "filtered"
    /\ UNCHANGED <<loadvars, end_year, top_ops, year, active_ops,
                   projection_breakdown_list, total_projection_df>>

\* no row has a deposit year: the projection is not drawn
ProjectionSkip ==
    /\ pc = "filtered"
    /\ ~Projectable(df_filtered)
    /\ pc' = "done"
    /\ UNCHANGED <<loadvars, dashvars>>

\* df_filtered.groupby('FacteurKey') on a table without that column
\* raises KeyError, which ends the script run
ProjectionKeyError ==
    /\ pc = "filtered"
    /\ Projectable(df_filtered)
    /\ "FacteurKey" \notin df_filtered.cols
    /\ pc' = "KeyError"
    /\ UNCHANGED <<loadvars, dashvars>>

\* the years and the operation types of the projection are set up
ProjectionStart(current_year, horizon) ==
    /\ pc = "filtered"
    /\ Projectable(df_filtered)
    /\ "FacteurKey" \in df_filtered.cols
    /\ end_year' = current_year + horizon
    /\ top_ops' = TopOps(df_filtered)
    /\ year' = start_year(df_filtered) - 1
    /\ projection_breakdown_list' = <<>>
    /\ pc' = "projecting"
    /\ UNCHANGED <<loadvars, filters, df_filtered, kpis, active_ops, total_projection_df>>

\* one iteration of the loop over projection_years
ProjectionYear ==
    /\ pc = "projecting"
    /\ year < end_year
    /\ year' = year + 1
    /\ active_ops' = ActiveOps(df_proj(df_filtered, top_ops), year + 1)
    /\ projection_breakdown_list' =
          projection_breakdown_list
            \o Breakdown(ActiveOps(df_proj(df_filtered, top_ops), year + 1), year + 1)
    /\ UNCHANGED <<loadvars, pc, filters, df_filtered, kpis, end_year, top_ops,
                   total_projection_df>>

\* the loop is over: the entries are totalled by year
ProjectionEnd ==
    /\ pc = "projecting"
    /\ year >= end_year
    /\ total_projection_df' = TotalProjection(projection_breakdown_list)
    /\ pc' = "done"
    /\ UNCHANGED <<loadvars, filters, df_filtered, kpis, end_year, top_ops, year,
                   active_ops, projection_breakdown_list>>

\* the server is stopped and started again
Clear ==
    /\ pc \in {"loaded", "warned", "done", "KeyError"}
    /\ uploaded_file' = NoFile
    /\ df' = None
    /\ pc' = "start"
    /\ filters' = NoFilters
    /\ df_filtered' = None
    /\ kpis' = NoKpis
    /\ end_year' = 0
    /\ top_ops' = <<>>
    /\ year' = 0
    /\ active_ops' = None
    /\ projection_breakdown_list' = <<>>
    /\ total_projection_df' = <<>>
    /\ calls' = <<>>
    /\ taux_efficacite' = TAUX_EFFICACITE_DEFAULT

NextEnrich ==
    \/ pc = "start" /\ \E r \in Rates : SetSlider(r)
    \/ pc = "start" /\ \E file \in EnrichFiles : Upload(file)
    \/ Clear

SpecEnrich == Init /\ [][NextEnrich]_vars

NextCalls ==
    \/ pc = "start" /\ \E file \in CallFiles : Upload(file)
    \/ pc = "loaded" /\ \E r \in Rates : MoveSlider(r)
    \/ Remove

SpecCalls == Init /\ [][NextCalls]_vars

Next ==
    \/ pc = "start" /\ \E file \in DashFiles : Upload(file)
    \/ Warn
    \/ pc = "loaded" /\ \E f \in Explored(df) : ApplyFilters(f)
    \/ ProjectionSkip
    \/ ProjectionKeyError
    \/ \E current_year \in CurrentYears, horizon \in Horizons :
          ProjectionStart(current_year, horizon)
    \/ ProjectionYear
    \/ ProjectionEnd
    \/ Clear

Spec == Init /\ [][Next]_vars

----------------------------------------------------------------------------
(* Properties of the enrichment *)

Loaded == pc # "start"
Enriched == pc # "start" /\ df.ok
RowNumbers == 1..Len(df.rows)

\* the cell of row i, column c of the input table, as read from the
\* workbook (NaN when the table has no such column)
Raw(i, c) ==
    IF c \in uploaded_file.cols THEN read_excel(uploaded_file).rows[i][c] ELSE NaN

\* C1: every workbook that can be read as a table is enriched, whatever
\* columns it has: None is returned only for an unreadable workbook.
C1_NoneOnlyWhenUnreadable == (Loaded /\ uploaded_file.readable) => df.ok

\* C2: the enriched table has the rows of the input table, as many, in
\* the same order and under the same labels.
C2_RowPreservation ==
    Enriched =>
        /\ Len(df.rows) = Len(uploaded_file.rows)
        /\ df.index = [i \in 1..Len(uploaded_file.rows) |-> i - 1]
        /\ \A i \in RowNumbers : df.rows[i]["Ref"] = uploaded_file.rows[i]["Ref"]

C2_Witness ==
    /\ Enriched /\ Len(df.rows) >= 2
    /\ \E i \in RowNumbers : ~notna(df.rows[i]["Annee_Depot"])
    /\ df.rows[1]["Ref"] # df.rows[2]["Ref"]

\* C3: every enriched row has one Type_Beneficiaire among the three
\* values, one Secteur among the six, and one FacteurKey, with or without
\* a 'Code équipement' column.
C3_OneTypeSectorKey ==
    Enriched =>
        /\ {"Type_Beneficiaire", "Secteur", "FacteurKey"} \subseteq df.cols
        /\ \A i \in RowNumbers :
              /\ df.rows[i]["Type_Beneficiaire"]
                    \in {PrecariteEnergetique, PersonneMorale, MenageClassique}
              /\ df.rows[i]["Secteur"]
                    \in {SecteurMap[k] : k \in DOMAIN SecteurMap} \cup {Autre}
              /\ df.rows[i]["FacteurKey"].k = "str"

\* an identifier of the input is present: not missing, not blank and not
\* the text 'nan' once trimmed
IdentifierPresent(i, c) ==
    /\ notna(Raw(i, c))
    /\ Raw(i, c).k = "str" => strip(Raw(i, c).s) \notin {<<>>, Txt_nan}

AnyIdentifier(i) ==
    \/ IdentifierPresent(i, "Tableau Recapitulatif champ 8")
    \/ IdentifierPresent(i, "Tableau Recapitulatif champ 9")

\* C5: Type_Beneficiaire is 'Précarité énergétique' when the precarity
\* amount is > 0, else 'Personne Morale' when an identifier is present,
\* else 'Ménage Classique'.
C5_BeneficiaryPriority ==
    Enriched =>
        \A i \in RowNumbers :
            df.rows[i]["Type_Beneficiaire"] =
                IF df.rows[i]["Total précarité"].n > 0 THEN PrecariteEnergetique
                ELSE IF AnyIdentifier(i) THEN PersonneMorale
                ELSE MenageClassique

C5_Witness ==
    /\ Enriched
    /\ \E i \in RowNumbers :
          /\ df.rows[i]["Total précarité"].n > 0 /\ AnyIdentifier(i)
          /\ df.rows[i]["Type_Beneficiaire"] = PrecariteEnergetique
    /\ \E i \in RowNumbers :
          /\ df.rows[i]["Total précarité"].n = 0 /\ AnyIdentifier(i)
          /\ df.rows[i]["Type_Beneficiaire"] = PersonneMorale

\* the key the claim gives for a code text: prefix-second when the second
\* segment is TH, EN or EQ, the prefix alone otherwise
KeyOfSegments(segs) ==
    IF Len(segs) >= 2 /\ segs[2] \in {<<"T","H">>, <<"E","N">>, <<"E","Q">>}
    THEN segs[1] \o <<"-">> \o segs[2]
    ELSE segs[1]

KeyedAs(i, key) ==
    /\ df.rows[i]["FacteurKey"] = Str(key)
    /\ df.rows[i]["Facteur_Conversion"] =
          IF key \in DOMAIN FACTEUR_CUMAC_TO_KWH
          THEN FACTEUR_CUMAC_TO_KWH[key] ELSE FACTEUR_CUMAC_TO_KWH[DEFAULT]
    /\ df.rows[i]["Duree_Vie"] =
          IF key \in DOMAIN DUREE_VIE_EQUIPEMENT
          THEN DUREE_VIE_EQUIPEMENT[key] ELSE DUREE_VIE_EQUIPEMENT[DEFAULT]

HasCodeText(i) ==
    "Code équipement" \in uploaded_file.cols /\ Raw(i, "Code équipement").k = "str"

\* C6 as stated: the key is that of the uppercased code, split on '-',
\* and factor and lifetime are the entries of that key or of DEFAULT.
C6_KeyOfUppercasedCode ==
    Enriched =>
        \A i \in RowNumbers :
            HasCodeText(i) =>
                KeyedAs(i, KeyOfSegments(split(upper(Raw(i, "Code équipement").s))))

\* C6 amended: the key is that of the code with its surrounding
\* whitespace removed, uppercased and split on '-'.
C6_KeyOfTrimmedUppercasedCode ==
    Enriched =>
        \A i \in RowNumbers :
            HasCodeText(i) =>
                KeyedAs(i, KeyOfSegments(split(upper(strip(Raw(i, "Code équipement").s)))))

C6_Witness ==
    /\ Enriched
    /\ \E i \in RowNumbers :
          /\ HasCodeText(i)
          /\ Raw(i, "Code équipement").s = <<"b","a","r","-","t","h","-","0","0","1">>
          /\ df.rows[i]["FacteurKey"] = Str(BAR_TH)
          /\ df.rows[i]["Facteur_Conversion"] = Quot(1, 1216, -2)
          /\ df.rows[i]["Duree_Vie"] = Num(17)
    /\ \E i \in RowNumbers :
          /\ HasCodeText(i)
          /\ strip(Raw(i, "Code équipement").s) # Raw(i, "Code équipement").s
          /\ df.rows[i]["FacteurKey"] = Str(BAR_TH)

\* the label the three-tier fallback gives input row i
PeriodByRow(i) ==
    IF notna(Raw(i, "PERIODE")) THEN Str(upper(strip(Raw(i, "PERIODE").s)))
    ELSE IF Raw(i, "Depot").k = "str" /\ notna(extract_Pd(Raw(i, "Depot").s))
    THEN extract_Pd(Raw(i, "Depot").s)
    ELSE P5

\* C7: every row's Période is uppercase and is the row's PERIODE value
\* when it has one, else the P<digit> token of its Depot label when it
\* holds one, else 'P5'; no label comes from a missing value ('NAN').
C7_PeriodThreeTier ==
    Enriched =>
        \A i \in RowNumbers :
            /\ df.rows[i]["Période"] = PeriodByRow(i)
            /\ df.rows[i]["Période"].s = upper(df.rows[i]["Période"].s)
            /\ df.rows[i]["Période"] # Str(<<"N","A","N">>)

\* C8 (for names other than the text 'NaN'): Mandataire is 'Non renseigné'
\* when the input name is absent, missing, blank or the text 'nan', and
\* the trimmed input name otherwise.
C8_MandataireDefault ==
    Enriched =>
        \A i \in RowNumbers :
            (Raw(i, "Mandataire").k = "str" => strip(Raw(i, "Mandataire").s) # <<"N","a","N">>)
            => df.rows[i]["Mandataire"] =
                  IF \/ ~notna(Raw(i, "Mandataire"))
                     \/ strip(Raw(i, "Mandataire").s) \in {<<>>, Txt_nan}
                  THEN NonRenseigne
                  ELSE Str(strip(Raw(i, "Mandataire").s))

\* C9: Statut is 'Validé' exactly when the validation date is present
\* after parsing; a validation date that cannot be parsed is missing and
\* gives 'En cours', not an error.
C9_StatusIffValidationDate ==
    /\ Enriched =>
          \A i \in RowNumbers :
              /\ df.rows[i]["Statut"] \in {Valide, EnCours}
              /\ df.rows[i]["Statut"] = Valide <=> df.rows[i]["Date Validation"].k = "ts"
              /\ Raw(i, "Date Validation").k = "ts" => df.rows[i]["Statut"] = Valide
              /\ Raw(i, "Date Validation").k = "nan" => df.rows[i]["Statut"] = EnCours
              /\ Raw(i, "Date Validation") = Str(Txt_abc) => df.rows[i]["Statut"] = EnCours
    /\ (Loaded /\ uploaded_file.readable
        /\ {"Date Validation", "Date depot"} \subseteq uploaded_file.cols) => df.ok

C9_Witness ==
    /\ Enriched
    /\ \E i \in RowNumbers :
          Raw(i, "Date Validation") = Str(Txt_abc) /\ df.rows[i]["Statut"] = EnCours
    /\ \E i \in RowNumbers :
          Raw(i, "Date Validation").k = "str" /\ df.rows[i]["Statut"] = Valide


----------------------------------------------------------------------------
(* Properties of the department *)

\* a postal code written as text
PostalText(x) == IF x.k = "num" THEN NatToStr(x.n) ELSE x.s

\* C17: with a 'code postal' column, the department of every row that has
\* a postal code is the first two characters of the code written as
\* text, trimmed and left-padded with zeros to 5 characters; without the
\* column the enriched table has no department and enrichment succeeds.
C17_DepartmentOfPostalCode ==
    /\ (Enriched /\ "code postal" \in uploaded_file.cols) =>
          \A i \in RowNumbers :
              notna(Raw(i, "code postal")) =>
                  df.rows[i]["departement"] =
                      Str(SubSeq(ZeroPad(strip(PostalText(Raw(i, "code postal"))), 5), 1, 2))
    /\ (Loaded /\ uploaded_file.readable /\ "code postal" \notin uploaded_file.cols
           /\ {"Date Validation", "Date depot"} \subseteq uploaded_file.cols) =>
          df.ok /\ "departement" \notin df.cols

\* what holds instead: the code is written as pandas writes the cell,
\* with ".0" after a number when a cell of the column is empty
C17_DepartmentOfRenderedCode ==
    (Enriched /\ "code postal" \in uploaded_file.cols) =>
        \A i \in RowNumbers :
            notna(Raw(i, "code postal")) =>
                df.rows[i]["departement"] =
                    Str(SubSeq(ZeroPad(strip(
                        PostalText(Raw(i, "code postal"))
                          \o (IF Raw(i, "code postal").k = "num"
                                 /\ \E j \in RowNumbers : ~notna(Raw(j, "code postal"))
                                 /\ \A h \in RowNumbers : Raw(h, "code postal").k # "str"
                              THEN <<".", "0">> ELSE <<>>)), 5), 1, 2))

----------------------------------------------------------------------------
(* Properties of the metrics *)

\* the fields that depend on the efficiency rate
RateFields ==
    {"kWh_reels_annuels", "GWh_reels_annuels", "CO2_evite_tonnes_an",
     "Nb_foyers_equivalents", "Economies_euros_an"}

\* two invocations on the same workbook, the first under the smaller
\* rate, both returning a table
RatePairs ==
    {p \in (1..Len(calls)) \X (1..Len(calls)) :
        /\ calls[p[1]].file = calls[p[2]].file
        /\ calls[p[1]].taux < calls[p[2]].taux
        /\ calls[p[1]].result.ok /\ calls[p[2]].result.ok}

\* a > b, a / ra = b / rb and a = 0 for two numbers written on the same scale
SameScale(a, b) == a.k = "num" /\ b.k = "num" /\ a.d = b.d /\ a.e = b.e /\ a.d > 0
More(a, b) == SameScale(a, b) /\ a.n > b.n
Proportional(a, ra, b, rb) ==
    SameScale(a, b) /\ a.n % ra = 0 /\ b.n % rb = 0 /\ a.n \div ra = b.n \div rb
IsZero(a) == a.k = "num" /\ a.n = 0

\* every rate-dependent field of every row is greater in hi than in lo
AllMore(hi, lo) ==
    \A i \in 1..Len(lo.rows), c \in RateFields : More(hi.rows[i][c], lo.rows[i][c])

\* C13: for two rates r1 < r2, every row's real annual energy, CO2
\* avoided, equivalent households and avoided cost are strictly greater
\* under r2 than under r1.
C13_StrictlyIncreasingInRate ==
    \A p \in RatePairs : AllMore(calls[p[2]].result, calls[p[1]].result)

\* the fields of hi (rate rhi) and lo (rate rlo) are proportional to the
\* rates, with the same cumac
AllProportional(hi, rhi, lo, rlo) ==
    \A i \in 1..Len(lo.rows), c \in RateFields :
        /\ hi.rows[i]["kWh_cumac"] = lo.rows[i]["kWh_cumac"]
        /\ Proportional(hi.rows[i][c], rhi, lo.rows[i][c], rlo)
        /\ lo.rows[i]["kWh_cumac"].n > 0 => More(hi.rows[i][c], lo.rows[i][c])
        /\ lo.rows[i]["kWh_cumac"].n = 0 => IsZero(hi.rows[i][c]) /\ IsZero(lo.rows[i][c])
        /\ lo.rows[i]["kWh_cumac"].n < 0 => More(lo.rows[i][c], hi.rows[i][c])

\* C13 as the code has it: the fields are proportional to the rate, so
\* strictly greater under the greater rate for a row with a positive
\* cumac, zero under every rate for a row with cumac 0, and strictly
\* smaller for a row with a negative cumac.
C13_ProportionalToRate ==
    \A p \in RatePairs :
        AllProportional(calls[p[2]].result, calls[p[2]].taux,
                        calls[p[1]].result, calls[p[1]].taux)

\* a table with a row of positive cumac and a row of cumac 0, enriched
\* under two rates
C13_Witness ==
    \E p \in RatePairs :
        /\ \E i \in 1..Len(calls[p[1]].result.rows) :
              calls[p[1]].result.rows[i]["kWh_cumac"].n > 0
        /\ \E i \in 1..Len(calls[p[1]].result.rows) :
              calls[p[1]].result.rows[i]["kWh_cumac"].n = 0

NonNegativeInput(x) ==
    CASE x.k = "num" -> x.n >= 0
      [] x.k = "str" -> strip(x.s) = <<>> \/ Head(strip(x.s)) # "-"
      [] OTHER -> TRUE

NumericFields ==
    {"kWh_cumac", "GWh_cumac", "kWh_reels_annuels", "GWh_reels_annuels",
     "CO2_evite_tonnes_an", "Nb_foyers_equivalents", "Economies_euros_an",
     "Prime_versee"}

\* C14: for a row whose amounts are non-negative numbers, or missing or
\* no number (then coerced to 0), every derived numeric field is a
\* number >= 0.
C14_NonNegativeFields ==
    Enriched =>
        \A i \in RowNumbers :
            (/\ NonNegativeInput(Raw(i, "Total"))
             /\ NonNegativeInput(Raw(i, "Total précarité"))
             /\ NonNegativeInput(Raw(i, "Tableau Recapitulatif champ 23"))) =>
                \A c \in NumericFields :
                    /\ df.rows[i][c].k = "num"
                    /\ df.rows[i][c].d > 0
                    /\ df.rows[i][c].n >= 0

\* a row whose volume is no number and whose subsidy is no number, both
\* coerced to 0, next to a row with a positive volume
C14_Witness ==
    /\ Enriched
    /\ \E i \in RowNumbers :
          /\ Raw(i, "Total") = Str(Txt_abc)
          /\ Raw(i, "Tableau Recapitulatif champ 23").k = "str"
          /\ IsZero(df.rows[i]["kWh_cumac"]) /\ IsZero(df.rows[i]["Prime_versee"])
    /\ \E i \in RowNumbers : Positive(df.rows[i]["kWh_reels_annuels"])

----------------------------------------------------------------------------
(* Properties of the indicators *)

\* the script has applied the selections that the selectors show by default
DefaultRun == pc \notin {"start", "loaded", "warned"} /\ filters = DefaultFilters(df)

\* the rows that the default selections of period, mandataire and
\* beneficiary type keep, whatever their deposit year
KeptWhateverYear == ApplyFilter(df, [DefaultFilters(df) EXCEPT !.annee = {}])

\* C16: a row whose deposit date is missing or unparsable has a missing
\* deposit year; with the default selections it is counted in every
\* indicator that is not grouped by year and left out of the yearly
\* groupings only.
C16_MissingYearOnlySkipsYearGroups ==
    /\ Enriched =>
          \A i \in RowNumbers :
              (Raw(i, "Date depot").k \in {"nan", "str"}
               /\ ~IsIsoDate(Raw(i, "Date depot").s)) => ~notna(df.rows[i]["Annee_Depot"])
    /\ DefaultRun =>
          /\ kpis.total_dossiers = Kpis(KeptWhateverYear).total_dossiers
          /\ kpis.total_gwh_reels = Kpis(KeptWhateverYear).total_gwh_reels
          /\ kpis.total_foyers = Kpis(KeptWhateverYear).total_foyers
          /\ kpis.total_primes = Kpis(KeptWhateverYear).total_primes
          /\ kpis.total_couts_evites = Kpis(KeptWhateverYear).total_couts_evites
          /\ kpis.total_co2_evite = Kpis(KeptWhateverYear).total_co2_evite
          /\ kpis.gwhc_yearly = Kpis(KeptWhateverYear).gwhc_yearly

\* what holds instead: with the default selections the rows without
\* deposit year are in no indicator as soon as one row has a year
C16_DefaultYearFilterDropsUndated ==
    (DefaultRun /\ Annees(df) # {}) =>
        \A i \in 1..Len(df_filtered.rows) : notna(df_filtered.rows[i]["Annee_Depot"])

----------------------------------------------------------------------------
(* Properties of the projection *)

\* C4: when the input table has no 'Code équipement' column, every
\* enriched row has the DEFAULT conversion factor and lifetime, Secteur
\* 'Autre' and Sous_Categorie 'N/A', and the projection runs on the table
\* without failing.
C4_NoCodeColumnFallback ==
    (Enriched /\ "Code équipement" \notin uploaded_file.cols) =>
        /\ \A i \in RowNumbers :
              /\ df.rows[i]["Facteur_Conversion"] = FACTEUR_CUMAC_TO_KWH[DEFAULT]
              /\ df.rows[i]["Duree_Vie"] = DUREE_VIE_EQUIPEMENT[DEFAULT]
              /\ df.rows[i]["Secteur"] = Autre
              /\ df.rows[i]["Sous_Categorie"] = N_A
        /\ pc # "KeyError"

\* the loop of the projection has processed the year `year`
YearProcessed == pc \in {"projecting", "done"} /\ active_ops.ok

\* the rows of df_filtered that have a deposit year
Dated == {i \in 1..Len(df_filtered.rows) : notna(df_filtered.rows[i]["Date depot"])}

DepositYear(i) == df_filtered.rows[i]["Date depot"].n
Lifetime(i) == df_filtered.rows[i]["Duree_Vie"].n

\* the rows whose window Y <= y < Y + L holds the year y
InWindow(y) ==
    {i \in Dated : DepositYear(i) <= y /\ y < DepositYear(i) + Lifetime(i)}

IsCounted(i) ==
    \E j \in 1..Len(active_ops.rows) : active_ops.index[j] = df_filtered.index[i]

\* C10: a record with deposit year Y and lifetime L is among the active
\* operations of projection year y, and its savings are in the entries of
\* that year, if and only if Y <= y < Y + L.
C10_LifetimeWindow ==
    YearProcessed =>
        /\ \A i \in Dated : IsCounted(i) <=> i \in InWindow(year)
        /\ SumEntries(projection_breakdown_list, year)
             = Sum(Col(Take(df_filtered, InWindow(year)), "GWh_reels_annuels"))

\* the year processed is the first one after the lifetime of a record,
\* while another record is still in its window
C10_Witness ==
    /\ pc = "projecting" /\ active_ops.ok
    /\ \E i \in Dated : DepositYear(i) + Lifetime(i) = year
    /\ \E i \in Dated : i \in InWindow(year) /\ Positive(df_filtered.rows[i]["GWh_reels_annuels"])


\* the operation types of df_filtered and their total real annual energy
FilteredKeys == {df_filtered.rows[i]["FacteurKey"].s : i \in 1..Len(df_filtered.rows)}

KeyTotal(k) ==
    Sum(Col(Take(df_filtered,
                 {i \in 1..Len(df_filtered.rows) : df_filtered.rows[i]["FacteurKey"].s = k}),
            "GWh_reels_annuels"))

\* the labels of the entries of the breakdown for year y
LabelsOf(y) ==
    {projection_breakdown_list[j].TypeOperation :
        j \in {n \in 1..Len(projection_breakdown_list) :
                  projection_breakdown_list[n].Annee = y}}

TopSet == {top_ops[j] : j \in 1..Len(top_ops)}

\* C11: the breakdown of each year has at most 6 labels: at most 5
\* operation types, none with a smaller total over the filtered table than
\* a type left out, plus 'Autres'; every record whose type is not among
\* those 5 is labelled 'Autres'.
C11_TopFivePlusAutres ==
    YearProcessed =>
        /\ Cardinality(LabelsOf(year)) <= 6
        /\ LabelsOf(year) \subseteq TopSet \cup {Autres}
        /\ TopSet \subseteq FilteredKeys
        /\ Cardinality(TopSet) <= 5
        /\ Cardinality(TopSet) = 5 \/ TopSet = FilteredKeys
        /\ \A a \in TopSet, b \in FilteredKeys \ TopSet : ~Greater(KeyTotal(b), KeyTotal(a))
        /\ \A j \in 1..Len(active_ops.rows) :
              active_ops.rows[j]["Type Opération"] =
                 IF active_ops.rows[j]["FacteurKey"].s \in TopSet
                 THEN active_ops.rows[j]["FacteurKey"] ELSE Str(Autres)

\* a year whose breakdown has 6 labels, 'Autres' standing for two types
C11_Witness ==
    /\ YearProcessed
    /\ Cardinality(LabelsOf(year)) = 6
    /\ Cardinality({active_ops.rows[j]["FacteurKey"] :
                       j \in {n \in 1..Len(active_ops.rows) :
                                 active_ops.rows[n]["Type Opération"] = Str(Autres)}}) = 2


HasUndatedRow ==
    /\ df_filtered.ok
    /\ \E i \in 1..Len(df_filtered.rows) : ~notna(df_filtered.rows[i]["Annee_Depot"])

\* C12: when no row of the filtered table has both a deposit year and a
\* lifetime, the projection yields an empty series and does not fail; and
\* the projection never fails on a table with rows without deposit year.
C12_NoFailureOnMissingYears ==
    /\ (pc \in {"projecting", "done", "KeyError"} /\ ~Projectable(df_filtered)) =>
          /\ pc = "done"
          /\ projection_breakdown_list = <<>>
          /\ total_projection_df = <<>>
    /\ HasUndatedRow => pc # "KeyError"

\* the part of C12 that holds: on tables with a FacteurKey column
C12_OnKeyedTables ==
    /\ (pc \in {"projecting", "done", "KeyError"} /\ ~Projectable(df_filtered)) =>
          /\ pc = "done"
          /\ projection_breakdown_list = <<>>
          /\ total_projection_df = <<>>
    /\ (HasUndatedRow /\ "FacteurKey" \in df_filtered.cols) => pc # "KeyError"


\* the loop of the projection is running or has run
ProjectionRan == pc \in {"projecting", "done"} /\ Projectable(df_filtered)

\* the minimum deposit year present in the filtered table
MinDepositYear ==
    CHOOSE y \in {DepositYear(i) : i \in Dated} :
        \A z \in {DepositYear(i) : i \in Dated} : y <= z

EntryYears ==
    {projection_breakdown_list[j].Annee : j \in 1..Len(projection_breakdown_list)}

\* C18: the projection covers the years from the minimum deposit year of
\* the filtered table to current year + horizon, both included: every
\* entry has its year in that range, every year of the range processed so
\* far that has an active record has an entry, and the loop ends at
\* end_year, whatever the windows of the records.
C18_ProjectionYearRange ==
    ProjectionRan =>
        /\ end_year \in {c + h : c \in CurrentYears, h \in Horizons}
        /\ EntryYears \subseteq MinDepositYear..end_year
        /\ year \in (MinDepositYear - 1)..end_year
        /\ \A y \in MinDepositYear..year : InWindow(y) # {} <=> y \in EntryYears
        /\ pc = "done" => year = end_year

\* the loop is over and a record whose window goes past end_year was
\* counted up to end_year, in a table whose records start in different years
C18_Witness ==
    /\ ProjectionRan /\ pc = "done"
    /\ \E i \in Dated : DepositYear(i) + Lifetime(i) - 1 > end_year
    /\ \E i \in Dated : DepositYear(i) > MinDepositYear
    /\ end_year \in EntryYears /\ MinDepositYear \in EntryYears

\* the category of a record: its operation type when that is one of
\* top_ops, else 'Autres'
Category(i) ==
    IF df_filtered.rows[i]["FacteurKey"].s \in TopSet
    THEN df_filtered.rows[i]["FacteurKey"].s ELSE Autres

EntriesOf(y) ==
    {j \in 1..Len(projection_breakdown_list) : projection_breakdown_list[j].Annee = y}

\* the entries of year y partition the records active in year y
Partitioned(y) ==
    /\ Cardinality(EntriesOf(y)) = Cardinality(LabelsOf(y))
    /\ LabelsOf(y) = {Category(i) : i \in InWindow(y)}
    /\ \A j \in EntriesOf(y) :
          projection_breakdown_list[j].Economies =
             Sum(Col(Take(df_filtered,
                          {i \in InWindow(y) :
                              Category(i) = projection_breakdown_list[j].TypeOperation}),
                     "GWh_reels_annuels"))
    /\ SumEntries(projection_breakdown_list, y)
          = Sum(Col(Take(df_filtered, InWindow(y)), "GWh_reels_annuels"))

\* C19: for every projected year, once processed, the entries partition
\* the active records: one entry per category that has an active record, each entry
\* the sum of the records of its category, the year's total the sum of
\* all active records; and the categories are fixed before the loop.
C19_CategoriesPartitionActive ==
    /\ ProjectionRan => top_ops = TopOps(df_filtered)
    /\ YearProcessed => Partitioned(year)
    /\ (ProjectionRan /\ pc = "done") =>
          /\ DOMAIN total_projection_df = EntryYears
          /\ \A y \in EntryYears :
                total_projection_df[y]
                   = Sum(Col(Take(df_filtered, InWindow(y)), "GWh_reels_annuels"))

\* a year with an entry 'Autres' that sums two records, next to entries
\* of the top five
C19_Witness ==
    /\ ProjectionRan /\ pc = "done"
    /\ \E y \in EntryYears :
          /\ Cardinality({i \in InWindow(y) : Category(i) = Autres}) = 2
          /\ Cardinality(EntriesOf(y)) = 6

====
